---- MODULE Spec2Model ----
(***************************************************************************)
(* Verification model of the email-automation repository:                  *)
(*   core/data_db_processor.py  status/category classifier                 *)
(*   bedrock.py                 generative call with exponential backoff   *)
(*   email_responder.py         response composer (template fallback)      *)
(*   main.py                    batch orchestrator                         *)
(*   core/vector_ingestion_engine.py    knowledge index builder            *)
(*   core/semantic_response_engine.py   retrieval engine                   *)
(*   query_email_body.py        email-body query tool                      *)
(* Python strings are TLA+ strings; TLC evaluates Len, SubSeq and \o on    *)
(* them, so the character-level code (lower, strip, re.sub) is modelled    *)
(* character by character.                                                 *)
(***************************************************************************)
EXTENDS Integers, Sequences, FiniteSets, TLC

VARIABLES
    \* core/data_db_processor.py
    df_cols,        \* columns of data/datadb.csv
    df_rows,        \* rows of data/datadb.csv, in file order
    ticket_id,      \* argument of process_ticket_metadata
    cls_pc,         \* "ready" | "returned" | "raised"
    cls_out,        \* returned dict, or the exception raised
    \* email_responder.py and bedrock.py
    search_data,    \* the dict given to generate_response
    files,          \* templates/: path -> content
    bk,             \* state of generate_llm_response_with_backoff
    gr_pc,          \* "ready" | "llm" | "done"
    gr_out,         \* the dict generate_response returned
    \* main.py and manual_email_processor.py
    prog,           \* "main" | "manual": the orchestrator that runs
    input_state,    \* "ok" | "unreadable" | "missing_columns": the input CSV
    input_rows,     \* the tickets of the input, in order
    resume,         \* the --resume flag
    store,          \* the results file: whether it exists and its rows
    results,        \* the list `results`
    processed,      \* the set `processed_tickets`
    m_pc,           \* "start" | "loop" | "done"
    m_idx,          \* position of the for loop in the input
    m_exit,         \* exit status of the command, -1 while it runs
    milvus,         \* the index service: collection -> fields, hits
    calls,          \* stages invoked so far, by ticket
    first_run,      \* what an earlier run of main.py on the same input left
    \* core/vector_ingestion_engine.py, core/semantic_response_engine.py
    \* and query_email_body.py
    collections,    \* the index service: collection -> schema fields, records
    ingests,        \* the ingest_excel_file calls so far
    kb_call         \* the last call on the knowledge index and what it gave

clsVars == <<df_cols, df_rows, ticket_id, cls_pc, cls_out>>
cmpVars == <<search_data, files, bk, gr_pc, gr_out>>
orchVars == <<prog, input_state, input_rows, resume, store, results, processed,
              m_pc, m_idx, m_exit, milvus, calls, first_run>>
kbVars == <<collections, ingests, kb_call>>
vars == <<clsVars, cmpVars, orchVars, kbVars>>

-----------------------------------------------------------------------------
(* Character-level helpers for the str methods the code calls.             *)

UPPER == "ABCDEFGHIJKLMNOPQRSTUVWXYZ"
LOWER == "abcdefghijklmnopqrstuvwxyz"
DIGITS == "0123456789"

CharAt(s, i) == SubSeq(s, i, i)

\* the characters of a string, as a set
Chars(alphabet) == { CharAt(alphabet, i) : i \in 1..Len(alphabet) }

UpperChars == Chars(UPPER)
DigitChars == Chars(DIGITS)
\* [a-zA-Z0-9_]
WordChars == Chars(LOWER \o UPPER \o DIGITS \o "_")
\* [a-z0-9_]
LowerWordChars == Chars(LOWER \o DIGITS \o "_")

\* one character of str.lower()
LowerOf == [c \in UpperChars |-> CharAt(LOWER, CHOOSE i \in 1..26 : CharAt(UPPER, i) = c)]
LowerChar(c) == IF c \in UpperChars THEN LowerOf[c] ELSE c

RECURSIVE StrLower(_)
\* str.lower()
StrLower(s) ==
    IF s = "" THEN ""
    ELSE LowerChar(CharAt(s, 1)) \o StrLower(SubSeq(s, 2, Len(s)))

RECURSIVE StrReplacePlus(_)
\* str.replace('+', '_')
StrReplacePlus(s) ==
    IF s = "" THEN ""
    ELSE (IF CharAt(s, 1) = "+" THEN "_" ELSE CharAt(s, 1))
         \o StrReplacePlus(SubSeq(s, 2, Len(s)))

\* '+' in s
HasPlus(s) == \E i \in 1..Len(s) : CharAt(s, i) = "+"

RECURSIVE StrStrip(_)
\* str.strip() for the blank character
StrStrip(s) ==
    IF s = "" THEN ""
    ELSE IF CharAt(s, 1) = " " THEN StrStrip(SubSeq(s, 2, Len(s)))
    ELSE IF CharAt(s, Len(s)) = " " THEN StrStrip(SubSeq(s, 1, Len(s) - 1))
    ELSE s

\* number of digits at the end of s
TrailingDigits(s) ==
    CHOOSE n \in 0..Len(s) :
        /\ \A i \in (Len(s) - n + 1)..Len(s) : CharAt(s, i) \in DigitChars
        /\ (n < Len(s) => CharAt(s, Len(s) - n) \notin DigitChars)

\* re.sub(r'_[0-9]+$', '', s)
StripNumSuffix(s) ==
    LET n == TrailingDigits(s) IN
    IF n >= 1 /\ n < Len(s) /\ CharAt(s, Len(s) - n) = "_"
    THEN SubSeq(s, 1, Len(s) - n - 1)
    ELSE s

-----------------------------------------------------------------------------
(* core/data_db_processor.py                                               *)

\* the dict literal, as (key, value) pairs
CATEGORY_SANITIZATION_MAP ==
    {
       <<"predisbursal_loan_query_loan_cancellation_request",
         "predisbursal_loan_query_loan_ca">>,
       <<"collection_query",
         "collection_query">>,
       <<"data_erasure_request__",
         "data_erasure_request">>,
       <<"predisbursal_loan_query_credit_team_action_pending",
         "predisbursal_loan_query_credit">>,
       <<"predisbursal_loan_query_loan_approved_disbursed",
         "predisbursal_loan_query_loan_ap">>,
       <<"predisbursal_loan_query_other_bs_isssues",
         "predisbursal_loan_query_other_b">>,
       <<"predisbursal_loan_query_bs_issue_maximum_attempt_reach",
         "predisbursal_loan_query_bs_issu">>,
       <<"predisbursal_loan_query_im+_instances_loc-live-withdrawal_request_placed",
         "predisbursal_loan_query_im_inst">>,
       <<"post_loan_closure_queries_surrender_of_im+limit",
         "post_loan_closure_queries_surre">>,
       <<"post_loan_disbursal_query_basic_emi_-ecs_details_emi_amount",
         "post_loan_disbursal_query_basic">>,
       <<"post_loan_closure_queries",
         "post_loan_closure_queries">>,
       <<"post_loan_disbursal_query_basic_emi_-ecs_details_ecs_approved,_but_not_triggered",
         "post_loan_disbursal_query_bas_1">>,
       <<"post_loan_disbursal_query_payment_ecs_payment",
         "post_loan_disbursal_query_payme">>,
       <<"post_loan_disbursal_query",
         "post_loan_disbursal_query">>,
       <<"post_loan_disbursal_query_basic_emi_-ecs_details_ecs_status",
         "post_loan_disbursal_query_bas_2">>,
       <<"canceled_loan_checking_for_reason_",
         "canceled_loan_checking_for_reas">>,
       <<"post_loan_disbursal_query_basic_emi_-ecs_details_emi_date_change_request",
         "post_loan_disbursal_query_bas_3">>,
       <<"update_-_edit_details_bank_account_details_",
         "update_edit_details_bank_accou">>,
       <<"update_-_edit_details_mobile_number",
         "update_edit_details_mobile_num">>,
       <<"update_-_edit_details_email_id",
         "update_edit_details_email_id">>,
       <<"post_loan_disbursal_query_basic_emi_-ecs_details_loan_closure_amount",
         "post_loan_disbursal_query_bas_4">>,
       <<"post_loan_disbursal_query_payment_dual_payment_not_updated",
         "post_loan_disbursal_query_pay_1">>,
       <<"post_loan_disbursal_query_payment_refund_request",
         "post_loan_disbursal_query_pay_2">>,
       <<"predisbursal_loan_query_general_info",
         "predisbursal_loan_query_general">>,
       <<"predisbursal_loan_query_im+_instances",
         "predisbursal_loan_query_im_in_1">>,
       <<"predisbursal_loan_query_incomplete_profile",
         "predisbursal_loan_query_incompl">>,
       <<"predisbursal_loan_query_loan_approved_disbursal_in_progress",
         "predisbursal_loan_approved_disb">>,
       <<"stop_marketing_sms-emails_details_added_in_the_sheet_",
         "stop_marketing_sms_emails_detai">>,
       <<"unregistered-no_content_registered_credentials_needed",
         "unregistered_no_content_registe">>,
       <<"collection_queries_settlement_query",
         "collection_queries_settlement_q">>,
       <<"post_loan_closure_queries_credit_report_issues",
         "post_loan_closure_queries_credi">>,
       <<"post_loan_closure_queries_loan_related_documents_required_",
         "post_loan_closure_queries_loan">>,
       <<"predisbursal_loan_query_kyc_issue_pan-aadhar_exists",
         "predisbursal_loan_query_kyc_iss">>,
       <<"predisbursal_loan_query_nach_issue_general_information",
         "predisbursal_loan_query_nach_is">>,
       <<"predisbursal_loan_query_nach_issue_unable_to_proceed_enach",
         "predisbursal_loan_query_nach_1">>,
       <<"predisbursal_loan_query_rf-vf_query_general_information",
         "predisbursal_loan_query_rf_vf_q">>,
       <<"predisbursal_loan_query_rf-vf_query_rf-vf_paid_not_updated",
         "predisbursal_loan_query_rf_vf_p">>,
       <<"rejected_loan_cancel_enach_",
         "rejected_loan_cancel_enach">>,
       <<"rejected_loan_checking_for_reason",
         "rejected_loan_checking_for_reas">>,
       <<"rejected_loan_requesting_for_refund_",
         "rejected_loan_requesting_for_re">>,
       <<"rejected_loan_wants_to_re-apply-re-consider",
         "rejected_loan_wants_to_re_apply">>,
       <<"update_-_edit_details_address",
         "update_edit_details_address">>,
       <<"update_-_edit_details_name",
         "update_edit_details_name">>
    }

MapKeys == { p[1] : p \in CATEGORY_SANITIZATION_MAP }

\* a lookup that cuts every label to the length of the table's values
MapGetTruncating(key, default) ==
    IF Len(key) > 31 THEN SubSeq(key, 1, 31) ELSE key

\* CATEGORY_SANITIZATION_MAP.get(key, default)
MapGet(key, default) ==
    IF key \in MapKeys
    THEN (CHOOSE p \in CATEGORY_SANITIZATION_MAP : p[1] = key)[2]
    ELSE default

\* str() of a missing cell (pandas NaN)
NaN == "nan"

\* row.get(col, '') on a row of a frame whose columns are cols
RowGet(cols, row, col) == IF col \in cols THEN row[col] ELSE ""

\* the truthiness test `v and v.lower() != 'nan'`
Usable(v) == v # "" /\ StrLower(v) # "nan"

LoanBuckets == {"DISBURSED", "CLOSED", "UNDER_REVIEW", "REJECTED", "EXPIRED"}
RepaymentBuckets == {"REGULAR", "DELAYED_1", "DELAYED_3", "WRITTEN_OFF"}

\* format_status without the replacement of '+'
format_statusKeepPlus(im_value, base_status) == StrLower(im_value) \o base_status

\* the nested format_status(base_status) of create_single_line_status
format_status(im_value, base_status) ==
    IF HasPlus(im_value)
    THEN StrLower(StrReplacePlus(im_value)) \o base_status
    ELSE StrLower(im_value) \o base_status

RECURSIVE ScanStatus(_, _, _)
\* the for loop over status_list: acc = <<loan_status, repayment_status>>
ScanStatus(status_list, i, acc) ==
    IF i > Len(status_list) THEN acc
    ELSE LET status == status_list[i] IN
         ScanStatus(status_list, i + 1,
             IF status \in LoanBuckets THEN <<StrLower(status), acc[2]>>
             ELSE IF status \in RepaymentBuckets THEN <<acc[1], StrLower(status)>>
             ELSE acc)

create_single_line_status(im_value, status_list) ==
    IF status_list = <<>> THEN format_status(im_value, "nostatus")
    ELSE
    LET acc == ScanStatus(status_list, 1, <<"", "">>)
        loan_status == acc[1]
        repayment_status == acc[2]
    IN
    IF im_value = "IM" THEN
        IF loan_status = "rejected" THEN format_status(im_value, "rejected")
        ELSE IF loan_status = "under_review" THEN format_status(im_value, "underreview")
        ELSE IF loan_status = "expired" THEN format_status(im_value, "expired")
        ELSE IF loan_status = "disbursed" THEN
            IF repayment_status # ""
            THEN format_status(im_value, "disbursed" \o repayment_status)
            ELSE format_status(im_value, "disbursed")
        ELSE IF loan_status = "closed" THEN format_status(im_value, "closed")
        ELSE IF loan_status # "" THEN format_status(im_value, loan_status)
        ELSE format_status(im_value, "nostatus")
    ELSE IF im_value = "IM+" THEN
        IF loan_status = "disbursed" THEN
            IF repayment_status # ""
            THEN format_status(im_value, "disbursed" \o repayment_status)
            ELSE format_status(im_value, "disbursed")
        ELSE IF loan_status = "closed" THEN format_status(im_value, "closed")
        ELSE IF loan_status = "under_review" THEN format_status(im_value, "underreview")
        ELSE IF loan_status # "" THEN format_status(im_value, loan_status)
        ELSE format_status(im_value, "nostatus")
    ELSE
        LET im_sanitized == StrLower(StrReplacePlus(im_value)) IN
        IF loan_status # "" THEN
            IF repayment_status # ""
            THEN im_sanitized \o loan_status \o repayment_status
            ELSE im_sanitized \o loan_status
        ELSE im_sanitized \o "_nostatus"

\* indices of the rows whose str(cell) under col equals tid
Matching(rows, col, tid) == { i \in 1..Len(rows) : rows[i][col] = tid }

Min(S) == CHOOSE m \in S : \A n \in S : m <= n

Returned(status, category) ==
    [kind |-> "return", status |-> status, category |-> category]

Raised(exc) == [kind |-> "raise", exc |-> exc]

\* the body of process_ticket_metadata once the row is found
ClassifyRow(cols, row) ==
    LET data_from_im == StrStrip(RowGet(cols, row, "data_from"))
        category_raw == StrLower(RowGet(cols, row, "new"))
        category_sanitized == MapGet(category_raw, category_raw)
    IN
    IF Usable(data_from_im) THEN
        LET loan_status == StrStrip(RowGet(cols, row, "Loan Status"))
            repayment_status == StrStrip(RowGet(cols, row, "repayment_status"))
            lr_status == StrStrip(RowGet(cols, row, "lr_status"))
            primary == (IF Usable(loan_status) THEN <<loan_status>> ELSE <<>>)
                       \o (IF Usable(repayment_status) THEN <<repayment_status>> ELSE <<>>)
            status_list == IF primary # <<>> THEN primary
                           ELSE IF Usable(lr_status) THEN <<lr_status>>
                           ELSE <<>>
            status == create_single_line_status(data_from_im, status_list)
        IN Returned(StripNumSuffix(status), category_sanitized)
    ELSE
        LET lr_status == StrStrip(RowGet(cols, row, "lr_status"))
        IN Returned(StripNumSuffix(lr_status), category_sanitized)

\* df['ticket_id'] lookup after the 'Ticket ID' lookup came back empty
process_ticket_metadata_secondary(cols, rows, tid) ==
    IF "ticket_id" \notin cols THEN Raised("KeyError: 'ticket_id'")
    ELSE LET m == Matching(rows, "ticket_id", tid) IN
         IF m = {} THEN Returned("not_found", "not_found")
         ELSE ClassifyRow(cols, rows[Min(m)])

process_ticket_metadata(cols, rows, tid) ==
    IF "Ticket ID" \notin cols THEN Raised("KeyError: 'Ticket ID'")
    ELSE LET m == Matching(rows, "Ticket ID", tid) IN
         IF m = {} THEN process_ticket_metadata_secondary(cols, rows, tid)
         ELSE ClassifyRow(cols, rows[Min(m)])

-----------------------------------------------------------------------------
(* Inputs of the classifier: the metadata source and the ticket asked for. *)

\* upper bound on the rows that precede the row under study in datadb.csv
MaxFill == 1

StatusCols == {"data_from", "Loan Status", "repayment_status", "lr_status", "new"}
AllCols == {"Ticket ID", "ticket_id"} \cup StatusCols

ColumnSets ==
    { AllCols,
      AllCols \ {"ticket_id"},
      AllCols \ {"Ticket ID"},
      AllCols \ {"data_from"},
      AllCols \ {"new"} }

TicketIds == {"T1", "T2"}

Markers == {"IM", "IM+", "IM++", "im", NaN, " "}
LoanValues == LoanBuckets \cup {NaN, "PENDING"}
RepaymentValues == RepaymentBuckets \cup {NaN}
LrValues == {NaN, "CLOSED", "Sanctioned_12"}

\* labels without an entry in the table
UnmappedLabels ==
    { "other_kyc_issues",
      "escalations_singledebt_",
      "Escalations_RBI-Cyber_cell_",
      "predisbursal_loan_query_rf/vf_query_general_information",
      "Predisbursal_Loan_Query_IM+_Instances_Unable_To_Place_Withdrawal",
      "_misc",
      NaN }

RawLabels ==
    MapKeys \cup UnmappedLabels
    \cup { "Collection_Query", "PREDISBURSAL_LOAN_QUERY_IM+_INSTANCES" }

MkRow(t1, t2, im, loan, rep, lr, new) ==
    ("Ticket ID" :> t1) @@ ("ticket_id" :> t2) @@ ("data_from" :> im)
    @@ ("Loan Status" :> loan) @@ ("repayment_status" :> rep)
    @@ ("lr_status" :> lr) @@ ("new" :> new)

\* rows that vary the status-bearing cells
StatusRows ==
    { MkRow("T1", "T1", im, loan, rep, lr, "collection_query") :
        im \in Markers, loan \in LoanValues, rep \in RepaymentValues, lr \in LrValues }

\* rows that vary the raw category label
LabelRows ==
    { MkRow("T1", "T1", im, "DISBURSED", "REGULAR", NaN, new) :
        im \in {"IM+", NaN}, new \in RawLabels }

\* rows that vary the identifier cells
IdRows ==
    { MkRow(t1, t2, "IM+", "DISBURSED", "REGULAR", NaN, "collection_query") :
        t1 \in {"T1", NaN}, t2 \in {"T1", NaN} }

SampleRows == StatusRows \cup LabelRows \cup IdRows

FillerRow == MkRow("T1", "T3", "IM", "CLOSED", NaN, NaN, "post_loan_closure_queries")

RECURSIVE Fillers(_)
Fillers(n) == IF n = 0 THEN <<>> ELSE <<FillerRow>> \o Fillers(n - 1)

Tables ==
    {<<>>} \cup { Fillers(n) \o <<r>> : n \in 0..MaxFill, r \in SampleRows }

-----------------------------------------------------------------------------
(* bedrock.py: generate_llm_response_with_backoff                          *)

\* the default of the parameter `retries`
retries == 5

\* delay = 5
InitialDelay == 5

\* a backoff that grows by a fixed step instead of doubling
NextDelayLinear(delay) == delay + InitialDelay

\* delay *= 2
NextDelay(delay) == delay * 2

\* What one invoke_model call can do: return a body, raise an HTTPError whose
\* response.status_code is 429, raise an HTTPError with another status code,
\* or raise an exception that is not an HTTPError.
BackendOutcomes == {"ok", "http_429", "http_other", "exception"}

\* the text of response_body['outputs'][0]['text'].strip()
GeneratedText == "Dear Customer, thank you for writing to us."

\* every HTTPError taken for a rate-limit signal
IsRateLimitAnyHttp(o) == o \in {"http_429", "http_other"}

\* `e.response.status_code == 429` inside `except HTTPError`
IsRateLimit(o) == o = "http_429"

\* the state of a call at the top of the for loop (line 23)
BackoffStart ==
    [pc |-> "running", attempt |-> 0, delay |-> InitialDelay,
     hist |-> <<>>, waits |-> <<>>, result |-> ""]

\* range(retries + 1): one attempt too many
LoopContinuesOffByOne(st) == st.attempt <= retries

\* `for attempt in range(retries)` has another iteration
LoopContinues(st) == st.attempt < retries

\* one iteration of the for loop, the backend answering o; when range(retries)
\* is used up, the raise after the loop
BackoffStep(st, o) ==
    IF ~LoopContinues(st)
    THEN [st EXCEPT !.pc = "raised",
                    !.result = "Failed after multiple retries due to rate limiting."]
    ELSE LET called == [st EXCEPT !.hist = Append(@, o)] IN
         IF o = "ok"
         THEN [called EXCEPT !.pc = "returned", !.result = GeneratedText]
         ELSE IF IsRateLimit(o)
         THEN [called EXCEPT !.waits = Append(@, st.delay),
                             !.delay = NextDelay(st.delay),
                             !.attempt = st.attempt + 1]
         ELSE [called EXCEPT !.pc = "raised",
                             !.result = IF o = "http_other" THEN "HTTP Error"
                                        ELSE "backend exception"]

RECURSIVE SumSeq(_)
SumSeq(s) == IF s = <<>> THEN 0 ELSE Head(s) + SumSeq(Tail(s))

-----------------------------------------------------------------------------
(* email_responder.py: EmailTemplateGenerator.generate_response            *)

\* sub occurs in s at position i
OccursAt(s, i, sub) ==
    i + Len(sub) - 1 <= Len(s) /\ SubSeq(s, i, i + Len(sub) - 1) = sub

\* `sub in s`
Contains(s, sub) == \E i \in 1..Len(s) : OccursAt(s, i, sub)

FieldLit == "Field '"
MidLit == "' not found in collection '"

\* index of the first quote at or after position i, 0 when there is none
NextQuote(s, i) ==
    IF \E j \in i..Len(s) : CharAt(s, j) = "'"
    THEN CHOOSE j \in i..Len(s) :
            CharAt(s, j) = "'" /\ \A k \in i..(j - 1) : CharAt(s, k) # "'"
    ELSE 0

\* positions where MidLit starts such that the regular expression
\* Field '.*' not found in collection '([^']+)'  matches through them
MatchPositions(s) ==
    { j \in 1..Len(s) :
        /\ OccursAt(s, j, MidLit)
        /\ \E i \in 1..j : i + Len(FieldLit) <= j /\ OccursAt(s, i, FieldLit)
        /\ NextQuote(s, j + Len(MidLit)) > j + Len(MidLit) }

\* match.group(1) of re.search, "" standing for `match is None`
\* (the group is never empty when there is a match)
ExtractCollection(s) ==
    IF MatchPositions(s) = {} THEN ""
    ELSE LET j == CHOOSE p \in MatchPositions(s) : \A q \in MatchPositions(s) : q <= p
             from == j + Len(MidLit)
         IN SubSeq(s, from, NextQuote(s, from) - 1)

\* the condition of line 64 on a dict
IsMissingFieldError(data) ==
    /\ "error" \in DOMAIN data
    /\ Contains(data["error"], "Field")
    /\ Contains(data["error"], "not found in collection")

\* lines 60-76: the template looked up for the error, as
\* <<fallback_template_used, fallback_template_content>>
FallbackLookup(data, tpl) ==
    IF ~IsMissingFieldError(data) THEN <<FALSE, "">>
    ELSE LET collection_name == ExtractCollection(data["error"])
             template_path == "templates/" \o collection_name \o ".html"
         IN IF collection_name # "" /\ template_path \in DOMAIN tpl
            THEN <<TRUE, tpl[template_path]>>
            ELSE <<FALSE, "">>

\* the template found but never short-circuiting the backend call
UseFallbackNever(used, content) == FALSE

\* `if fallback_template_used and fallback_template_content`
UseFallback(used, content) == used /\ content # ""

\* search_data.get('metadata', {})
SearchMetadata(data) ==
    IF "metadata" \in DOMAIN data THEN data["metadata"] ELSE "{}"

\* format_search_results: the text put in the prompt
format_search_results(data) ==
    IF "results" \notin DOMAIN data
    THEN "No relevant information was found in our records."
    ELSE "Here are the relevant details from our system:"

Success(text, fallback, data) ==
    [status |-> "success", email_response |-> text,
     fallback_template_used |-> fallback,
     search_metadata |-> SearchMetadata(data)]

Error(reason, data) ==
    [status |-> "error", error |-> reason,
     search_metadata |-> SearchMetadata(data)]

\* the part of generate_response before the backend call: the result when the
\* template short-circuits, [status |-> "llm"] when the backend is to be called
generate_response_begin(data, tpl) ==
    LET fb == FallbackLookup(data, tpl) IN
    IF UseFallback(fb[1], fb[2])
    THEN Success(fb[2], TRUE, data)
    ELSE [status |-> "llm", fallback_template_used |-> fb[1],
          prompt_context |-> format_search_results(data)]

\* generate_response without its except clause: the exception gets out
generate_response_endNoExcept(data, tpl, st) ==
    IF st.pc = "returned"
    THEN Success(st.result, FallbackLookup(data, tpl)[1], data)
    ELSE [status |-> "raised", exc |-> st.result]

\* the part of generate_response after the backend call ended in state st
generate_response_end(data, tpl, st) ==
    IF st.pc = "returned"
    THEN Success(st.result, FallbackLookup(data, tpl)[1], data)
    ELSE Error(st.result, data)

-----------------------------------------------------------------------------
(* Inputs of the composer: what retrieval handed over and templates/.      *)

\* search_db_by_field.py line 46
FieldNotFoundMsg(field, coll) ==
    "Field '" \o field \o "' not found in collection '" \o coll
    \o "'. Available fields: ['id', 'embedding', 'lr_status']"

\* search_db_by_field.py line 29
CollectionNotFoundMsg(coll) == "Collection '" \o coll \o "' not found."

\* search_db_by_field.py line 107
NoMatchMsg(field, coll) ==
    "No matching records found in collection '" \o coll
    \o "' for field '" \o field \o "'."

SampleCollections == {"collection_query", "other_kyc_issues"}
SampleField == "im_disbursedregular"

SearchDataSamples ==
    { [error |-> FieldNotFoundMsg(SampleField, c)] : c \in SampleCollections \cup {""} }
    \cup { [error |-> CollectionNotFoundMsg(c)] : c \in SampleCollections }
    \cup { [error |-> NoMatchMsg(SampleField, "collection_query")] }
    \cup { [metadata |-> "{'collection': 'collection_query', 'results_count': 1}",
            results |-> "[{'rank': 1, 'fields': {'lr_status': 'Your loan is closed.'}}]"] }

TemplatePath(c) == "templates/" \o c \o ".html"
TemplateTexts == {"", "<p>Dear Customer, your request is noted.</p> "}

TemplateDirs ==
    UNION { [P -> TemplateTexts] : P \in SUBSET { TemplatePath(c) : c \in SampleCollections } }

BackoffIdle == [BackoffStart EXCEPT !.pc = "idle"]

-----------------------------------------------------------------------------
(* main.py and manual_email_processor.py: the stages run as subprocesses.  *)

RECURSIVE sanitize_input(_)
\* a backslash put before every double quote and dollar sign (and before
\* every backquote, a character the strings of this module cannot hold)
sanitize_input(input_str) ==
    IF input_str = "" THEN ""
    ELSE (IF CharAt(input_str, 1) \in {"\"", "$"}
          THEN "\\" \o CharAt(input_str, 1)
          ELSE CharAt(input_str, 1))
         \o sanitize_input(SubSeq(input_str, 2, Len(input_str)))

RECURSIVE milvus_sanitize(_)
\* re.sub(r'[^a-zA-Z0-9_]', '_', name)
milvus_sanitize(name) ==
    IF name = "" THEN ""
    ELSE (IF CharAt(name, 1) \in WordChars
          THEN CharAt(name, 1)
          ELSE "_")
         \o milvus_sanitize(SubSeq(name, 2, Len(name)))

\* the two `if category == ...` statements (main.py 186-191, manual 159-164)
AliasRemap(category) ==
    IF category = "predisbursal_loan_query_im+_instances"
    THEN "predisbursal_loan_query_im_in_1"
    ELSE IF category = "update_-_edit_details_bank_account_details_"
    THEN "update_edit_details_bank_accou"
    ELSE category

skip_search_categories ==
    { "post_loan_disbursal_query_payment_lndn_payment_",
      "predisbursal_loan_query_rf/vf_query_general_information",
      "escalations_rbi-cyber_cell_",
      "escalations_singledebt_",
      "post_loan_disbursal_query_payment_paytm_payment_not_updated",
      "other_kyc_issues",
      "predisbursal_loan_query_im+_instances_unable_to_place_withdrawal" }

\* the keys of the two `if category == ...` statements
AliasKeys ==
    { "predisbursal_loan_query_im+_instances",
      "update_-_edit_details_bank_account_details_" }

\* main.py 166-172: sanitize_input, milvus_sanitize and the table lookup
MainSanitize(category) ==
    LET c == milvus_sanitize(sanitize_input(category)) IN MapGet(c, c)

\* main.py 161-172: the status and the category after a classification
MainNormalize(cls) ==
    [status |-> sanitize_input(IF cls.status = "im_closed" THEN "imclosed" ELSE cls.status),
     category |-> AliasRemap(MainSanitize(cls.category))]

\* manual_email_processor.py 140-165: the status and the category there
ManualNormalize(cls) ==
    [status |-> IF cls.status = "im_closed" THEN "imclosed" ELSE cls.status,
     category |-> LET c == AliasRemap(cls.category)
                  IN MapGet(StrLower(c), c)]

\* a file or a captured stdout holding a json.dumps of data
JsonText(data) == [json |-> TRUE, data |-> data]
\* a file or a captured stdout holding text that is not JSON
PlainText(text) == [json |-> FALSE, text |-> text]
NoFile == [json |-> FALSE, text |-> "<no file>"]

\* search_db_by_field.py main() on an index service mv (collection -> schema
\* fields and number of hits); out is TRUE when --json and --output are given.
\* Result: what stdout holds and what the output file holds.
search_db_by_field(mv, collection, metadata, out) ==
    LET ErrorOut(msg) ==
            IF out THEN [stdout |-> PlainText("JSON error written to file"),
                         file |-> JsonText([error |-> msg])]
            ELSE [stdout |-> PlainText(msg), file |-> NoFile]
    IN
    IF collection \notin DOMAIN mv
    THEN ErrorOut(CollectionNotFoundMsg(collection))
    ELSE IF metadata \notin mv[collection].fields
    THEN ErrorOut(FieldNotFoundMsg(metadata, collection))
    ELSE IF mv[collection].hits = 0
    THEN ErrorOut(NoMatchMsg(metadata, collection))
    ELSE IF out
    THEN [stdout |-> PlainText("JSON results written to file"),
          file |-> JsonText([metadata |-> "{'collection': '" \o collection \o "', 'results_count': 1}",
                             results |-> "[{'rank': 1, 'fields': {'" \o metadata \o "': 'answer'}}]"])]
    ELSE [stdout |-> PlainText(metadata \o ": answer Similarity Score: 90.00% "),
          file |-> NoFile]

\* What the n-th invoke_model call of one composition does.
BackendScripts == {"ok", "hard_error", "three_429_then_ok", "always_429"}

ScriptOutcome(script, n) ==
    CASE script = "ok" -> "ok"
      [] script = "hard_error" -> "http_other"
      [] script = "three_429_then_ok" -> (IF n <= 3 THEN "http_429" ELSE "ok")
      [] OTHER -> "http_429"

RECURSIVE RunBackoff(_, _)
\* generate_llm_response_with_backoff run to its end against a script
RunBackoff(st, script) ==
    IF st.pc # "running" THEN st
    ELSE RunBackoff(BackoffStep(st, ScriptOutcome(script, Len(st.hist) + 1)), script)

\* generate_response from the backend call on (lines 96-117)
generate_response_llm(data, tpl, st) ==
    [result |-> generate_response_end(data, tpl, st), backend_calls |-> Len(st.hist)]

\* generate_response after b, its part up to the backend call, is known
generate_response_from(data, tpl, script, b) ==
    IF b.status # "llm" THEN [result |-> b, backend_calls |-> 0]
    ELSE generate_response_llm(data, tpl, RunBackoff(BackoffStart, script))

\* generate_response run to its end: the dict returned and the backend calls
generate_response(data, tpl, script) ==
    generate_response_from(data, tpl, script, generate_response_begin(data, tpl))

\* email_responder.py main() lines 149-163: print the response as JSON
print_response(g) ==
    [exit |-> 0, stdout |-> JsonText(g.result), backend_calls |-> g.backend_calls]

\* email_responder.py main() --format json on the file content given:
\* load_search_results returns None unless the file holds JSON
email_responder_main(content, tpl, script) ==
    IF ~content.json
    THEN [exit |-> 1, stdout |-> PlainText("Error: Could not load search results"),
          backend_calls |-> 0]
    ELSE print_response(generate_response(content.data, tpl, script))

RECURSIVE DropLeadingBlanks(_)
DropLeadingBlanks(s) ==
    IF s # "" /\ CharAt(s, 1) = " " THEN DropLeadingBlanks(SubSeq(s, 2, Len(s))) ELSE s

\* re.sub(r'^(email body:)[ \t]*\n*', '', text, flags=re.IGNORECASE)
StripEmailBodyLabel(text) ==
    IF Len(text) >= 11 /\ StrLower(SubSeq(text, 1, 11)) = "email body:"
    THEN DropLeadingBlanks(SubSeq(text, 12, Len(text)))
    ELSE text

\* run_email_responder after the subprocess ended with exit status 0
ParseResponderOutput(stdout) ==
    IF ~stdout.json THEN "Error: Could not find JSON in email_responder output"
    ELSE IF stdout.data.status = "success"
    THEN StripEmailBodyLabel(StrStrip(stdout.data.email_response))
    ELSE "Error: " \o stdout.data.error

Row(t, response, template) ==
    [ticket |-> t, response |-> response, template |-> template]

SkippedText(category) == "Skipped search_db_by_field for category: " \o category
EmptyCategoryText ==
    "Failed at category check: Category is empty. Cannot run search_db_by_field."

\* no stage after the classification is invoked, and none fails
NoStage == [search |-> FALSE, respond |-> FALSE, backend |-> 0, failed |-> "none"]
\* the classification failed
ClassifyFailed == [search |-> FALSE, respond |-> FALSE, backend |-> 0, failed |-> "classify"]

SubprocessFailed == "Command returned non-zero exit status 1."

\* run_data_db_processor: the classifier run as a subprocess; env_ok is FALSE
\* when the subprocess fails for a reason outside the classifier
run_data_db_processor(t, env_ok) ==
    IF env_ok THEN process_ticket_metadata(df_cols, df_rows, t)
    ELSE Raised(SubprocessFailed)

\* the row for ticket t once the responder subprocess r has ended
\* (main.py 219-236, manual 206-226), and the stages invoked
RespondedTicket(t, r) ==
    [rows |-> <<IF r.exit # 0
                THEN Row(t, "Failed to run email_responder: " \o SubprocessFailed,
                         "email_responder error")
                ELSE Row(t, ParseResponderOutput(r.stdout),
                         "email_responder used (search or fallback)")>>,
     write |-> TRUE, search |-> TRUE, respond |-> TRUE, backend |-> r.backend_calls,
     failed |-> IF r.exit # 0 THEN "respond" ELSE "none"]

\* main.py 193-246 for ticket t with status and category n
MainSearchRespond(t, n, up, script) ==
    IF n.category \in skip_search_categories
    THEN [rows |-> <<>>, write |-> TRUE] @@ NoStage
    ELSE IF n.category = ""
    THEN [rows |-> <<>>, write |-> TRUE] @@ NoStage
    ELSE IF ~up
    THEN [rows |-> <<Row(t, "Failed at search_db_by_field: " \o SubprocessFailed, "")>>,
          write |-> TRUE, search |-> TRUE, respond |-> FALSE, backend |-> 0,
          failed |-> "search"]
    ELSE \* the temporary file holds the captured stdout
         RespondedTicket(t,
            email_responder_main(
                search_db_by_field(milvus, n.category, n.status, FALSE).stdout,
                files, script))

\* main.py 160-246 for ticket t after the classifier subprocess gave cls
MainClassified(t, cls, up, script) ==
    IF cls.kind = "raise"
    THEN [rows |-> <<Row(t, "Failed at data_db_processor: " \o SubprocessFailed, "")>>,
          write |-> FALSE] @@ ClassifyFailed
    ELSE MainSearchRespond(t, MainNormalize(cls), up, script)

\* main.py 157-246 for ticket t: the rows appended, whether the write of
\* lines 247-253 is reached, and the stages invoked. up: the index service
\* answers; script: what the generative backend does.
MainTicket(t, env_ok, up, script) ==
    MainClassified(t, run_data_db_processor(t, env_ok), up, script)

\* manual_email_processor.py 167-226 for ticket t with status and category n
ManualSearchRespond(t, n, up, script) ==
    IF n.category \in skip_search_categories
    THEN [rows |-> <<Row(t, SkippedText(n.category), "")>>, write |-> TRUE] @@ NoStage
    ELSE IF n.category = ""
    THEN [rows |-> <<Row(t, EmptyCategoryText, "")>>, write |-> TRUE] @@ NoStage
    ELSE IF ~up
    THEN [rows |-> <<Row(t, "Failed at search_db_by_field: Search failed for collection "
                            \o sanitize_input(n.category) \o ". See logs for details.", "")>>,
          write |-> TRUE, search |-> TRUE, respond |-> FALSE, backend |-> 0,
          failed |-> "search"]
    ELSE RespondedTicket(t,
            email_responder_main(
                search_db_by_field(milvus, sanitize_input(n.category),
                                   sanitize_input(n.status), TRUE).file,
                files, script))

\* manual_email_processor.py 139-226 for ticket t after the classifier gave cls
ManualClassified(t, cls, up, script) ==
    IF cls.kind = "raise"
    THEN [rows |-> <<Row(t, "Failed at data_db_processor: " \o SubprocessFailed, "")>>,
          write |-> TRUE] @@ ClassifyFailed
    ELSE ManualSearchRespond(t, ManualNormalize(cls), up, script)

\* manual_email_processor.py 136-226 for ticket t, as MainTicket
ManualTicket(t, env_ok, up, script) ==
    ManualClassified(t, run_data_db_processor(t, env_ok), up, script)

UnknownStepRow(t) == Row(t, "Failed at unknown step: cannot write the results file", "")

-----------------------------------------------------------------------------
(* Inputs of the orchestrators.                                            *)

\* upper bound on the tickets of one batch
MaxTickets == 2

\* data/datadb.csv of the batch runs; ticket T9 has no row
MainTable ==
    << MkRow("T1", "T1", "IM+", "DISBURSED", "REGULAR", NaN, "Collection_Query"),
       MkRow("T2", "T2", "IM", "CLOSED", NaN, NaN, "other_kyc_issues"),
       MkRow("T3", "T3", NaN, NaN, NaN, "CLOSED", "Escalations_RBI-Cyber_cell_") >>

BatchTickets == {"T1", "T2", "T3", "T9"}

\* batches: sequences of distinct tickets
Batches ==
    { b \in UNION { [1..n -> BatchTickets] : n \in 0..MaxTickets } :
        \A i, j \in 1..Len(b) : i # j => b[i] # b[j] }

KbFields == {"id", "embedding", "lr_status"}

\* index services: collection -> schema fields and number of hits
MilvusStates ==
    { ("collection_query" :> [fields |-> KbFields, hits |-> 1]),
      ("collection_query" :> [fields |-> KbFields \cup {"im_disbursedregular"}, hits |-> 1]) }

CollectionQueryTemplate ==
    (TemplatePath("collection_query") :> "<p>Dear Customer, your request is noted.</p> ")

NoStore == [exists |-> FALSE, rows |-> <<>>]
PriorStores ==
    { NoStore,
      [exists |-> TRUE,
       rows |-> <<Row("T1", "Dear Customer, done.", "email_responder used (search or fallback)")>>] }

NoCalls == [classify |-> <<>>, search |-> <<>>, respond |-> <<>>, backend |-> 0,
            failed |-> <<>>]

\* main.py was not run on the input before
NoFirstRun == [done |-> FALSE]

\* the state when python core/data_db_processor.py --ticket-id T starts
ClsInit ==
    /\ df_cols \in ColumnSets
    /\ df_rows \in Tables
    /\ ticket_id \in TicketIds
    /\ cls_pc = "ready"
    /\ cls_out = [kind |-> "none"]
    \* the composer and the orchestrators are not running
    /\ files = <<>>
    /\ search_data = [error |-> ""]
    /\ bk = BackoffIdle
    /\ gr_pc = "idle"
    /\ gr_out = [status |-> "none"]
    /\ prog = "none"
    /\ input_state = "ok"
    /\ input_rows = <<>>
    /\ resume = FALSE
    /\ store = NoStore
    /\ results = <<>>
    /\ processed = {}
    /\ m_pc = "idle"
    /\ m_idx = 1
    /\ m_exit = -1
    /\ milvus = <<>>
    /\ calls = NoCalls
    /\ first_run = NoFirstRun
    /\ collections = <<>>
    /\ ingests = <<>>
    /\ kb_call = [op |-> "none"]

\* one call of process_ticket_metadata(ticket_id)
Classify ==
    /\ cls_pc = "ready"
    /\ cls_out' = process_ticket_metadata(df_cols, df_rows, ticket_id)
    /\ cls_pc' = IF cls_out'.kind = "raise" THEN "raised" ELSE "returned"
    /\ UNCHANGED <<df_cols, df_rows, ticket_id>>
    /\ UNCHANGED <<cmpVars, orchVars, kbVars>>

\* the state when python email_responder.py FILE starts
CmpInit ==
    /\ search_data \in SearchDataSamples
    /\ files \in TemplateDirs
    /\ bk = BackoffIdle
    /\ gr_pc = "ready"
    /\ gr_out = [status |-> "none"]
    \* the classifier and the orchestrators are not running
    /\ df_cols = AllCols
    /\ df_rows = <<>>
    /\ ticket_id = "T1"
    /\ cls_pc = "idle"
    /\ cls_out = [kind |-> "none"]
    /\ prog = "none"
    /\ input_state = "ok"
    /\ input_rows = <<>>
    /\ resume = FALSE
    /\ store = NoStore
    /\ results = <<>>
    /\ processed = {}
    /\ m_pc = "idle"
    /\ m_idx = 1
    /\ m_exit = -1
    /\ milvus = <<>>
    /\ calls = NoCalls
    /\ first_run = NoFirstRun
    /\ collections = <<>>
    /\ ingests = <<>>
    /\ kb_call = [op |-> "none"]

\* generate_response up to the return of the template or the backend call
GenerateResponseBegin ==
    /\ gr_pc = "ready"
    /\ LET r == generate_response_begin(search_data, files) IN
       IF r.status = "llm"
       THEN /\ gr_pc' = "llm"
            /\ bk' = BackoffStart
            /\ gr_out' = gr_out
       ELSE /\ gr_pc' = "done"
            /\ gr_out' = r
            /\ bk' = bk
    /\ UNCHANGED <<search_data, files>>
    /\ UNCHANGED <<clsVars, orchVars, kbVars>>

\* one invoke_model call inside generate_llm_response_with_backoff
BedrockCall ==
    /\ gr_pc = "llm"
    /\ bk.pc = "running"
    /\ LoopContinues(bk)
    /\ \E o \in BackendOutcomes : bk' = BackoffStep(bk, o)
    /\ UNCHANGED <<search_data, files, gr_pc, gr_out>>
    /\ UNCHANGED <<clsVars, orchVars, kbVars>>

\* the for loop is over: raise RuntimeError (line 60)
BedrockExhausted ==
    /\ gr_pc = "llm"
    /\ bk.pc = "running"
    /\ ~LoopContinues(bk)
    /\ bk' = BackoffStep(bk, "ok")
    /\ UNCHANGED <<search_data, files, gr_pc, gr_out>>
    /\ UNCHANGED <<clsVars, orchVars, kbVars>>

\* generate_response after the backend call returned or raised
GenerateResponseEnd ==
    /\ gr_pc = "llm"
    /\ bk.pc \in {"returned", "raised"}
    /\ gr_out' = generate_response_end(search_data, files, bk)
    /\ gr_pc' = "done"
    /\ UNCHANGED <<search_data, files, bk>>
    /\ UNCHANGED <<clsVars, orchVars, kbVars>>

CmpNext == GenerateResponseBegin \/ BedrockCall \/ BedrockExhausted \/ GenerateResponseEnd

\* the state when python main.py [--resume] or python
\* manual_email_processor.py starts
OrchInit ==
    /\ prog \in {"main", "manual"}
    /\ df_cols \in {AllCols, AllCols \ {"new"}, AllCols \ {"ticket_id"}}
    /\ df_rows = MainTable
    /\ milvus \in MilvusStates
    /\ input_state \in (IF prog = "main" THEN {"ok", "unreadable", "missing_columns"}
                        ELSE {"ok"})
    /\ input_rows \in (IF input_state = "ok" THEN Batches ELSE {<<>>})
    /\ files \in (IF prog = "main" THEN {CollectionQueryTemplate}
                  ELSE {<<>>, CollectionQueryTemplate})
    /\ resume \in (IF prog = "main" THEN BOOLEAN ELSE {FALSE})
    /\ store \in (IF prog = "manual" THEN {NoStore}
                  ELSE IF resume THEN PriorStores \ {NoStore}
                  ELSE PriorStores)
    /\ results = <<>>
    /\ processed = {}
    /\ calls = NoCalls
    /\ first_run = NoFirstRun
    /\ collections = <<>>
    /\ ingests = <<>>
    /\ kb_call = [op |-> "none"]
    /\ m_idx = 1
    /\ m_exit = -1
    /\ m_pc = (IF prog = "main" THEN "start" ELSE "loop")
    \* the classifier and the composer run inside the stages
    /\ ticket_id = "T1"
    /\ cls_pc = "idle"
    /\ cls_out = [kind |-> "none"]
    /\ search_data = [error |-> ""]
    /\ bk = BackoffIdle
    /\ gr_pc = "idle"
    /\ gr_out = [status |-> "none"]

\* what the orchestrators never assign
orchEnvVars ==
    <<df_cols, df_rows, milvus, files, prog, input_state, input_rows, resume,
      ticket_id, cls_pc, cls_out, search_data, bk, gr_pc, gr_out,
      collections, ingests, kb_call, first_run>>

\* no ticket of the prior results is taken as processed
processed_ticketsNone(existing_results) == {}

\* main.py 144: set(str(ticket) for ticket in existing_results['ticket'])
processed_tickets(existing_results) ==
    { existing_results[i].ticket : i \in 1..Len(existing_results) }

\* main.py 108-144: up to the for loop
MainStart ==
    /\ prog = "main"
    /\ m_pc = "start"
    /\ LET existing_results == IF resume /\ store.exists THEN store.rows ELSE <<>> IN
       IF input_state # "ok"
       THEN /\ m_pc' = "done"
            /\ m_exit' = 0
            /\ UNCHANGED <<results, processed>>
       ELSE /\ m_pc' = "loop"
            /\ results' = existing_results
            /\ processed' = processed_tickets(existing_results)
            /\ UNCHANGED m_exit
    /\ UNCHANGED <<m_idx, store, calls>>
    /\ UNCHANGED orchEnvVars

Invoked(t, o) ==
    [classify |-> Append(calls.classify, t),
     search |-> IF o.search THEN Append(calls.search, t) ELSE calls.search,
     respond |-> IF o.respond THEN Append(calls.respond, t) ELSE calls.respond,
     backend |-> calls.backend + o.backend,
     failed |-> IF o.failed # "none" THEN Append(calls.failed, t) ELSE calls.failed]

\* the batch ends at the first ticket with a failed stage
NextIterationAborts(o) == IF o.failed # "none" THEN "done" ELSE "loop"

\* where main goes after a ticket with outcome o: `continue` (line 183) and
\* the end of the loop body (lines 253, 263) both lead to the next iteration
NextIteration(o) == "loop"

\* main.py 146-263: one iteration of the for loop
MainIterate ==
    /\ prog = "main"
    /\ m_pc = "loop"
    /\ m_idx <= Len(input_rows)
    /\ LET t == input_rows[m_idx] IN
       IF t \in processed
       THEN UNCHANGED <<results, store, calls, m_pc>>
       ELSE \E env_ok, up \in BOOLEAN, script \in BackendScripts :
            \E o \in {MainTicket(t, env_ok, up, script)} :
            \E appended \in {results \o o.rows} :
                 /\ calls' = Invoked(t, o)
                 /\ m_pc' = NextIteration(o)
                 /\ IF ~o.write
                    THEN results' = appended /\ store' = store
                    ELSE \/ results' = appended /\ store' = [exists |-> TRUE, rows |-> appended]
                         \* to_excel raises: the outer except clause
                         \/ results' = Append(appended, UnknownStepRow(t)) /\ store' = store
    /\ m_idx' = m_idx + 1
    /\ UNCHANGED <<m_exit, processed>>
    /\ UNCHANGED orchEnvVars

\* manual_email_processor.py 134-250: process_manual_email for the next ticket typed in
ManualIterate ==
    /\ prog = "manual"
    /\ m_pc = "loop"
    /\ m_idx <= Len(input_rows)
    /\ LET t == input_rows[m_idx] IN
       \E env_ok, up \in BOOLEAN, script \in BackendScripts :
          \E o \in {ManualTicket(t, env_ok, up, script)} :
          /\ calls' = Invoked(t, o)
          /\ \/ results' = o.rows /\ store' = [exists |-> TRUE, rows |-> o.rows]
             \* to_excel raises: the outer except clause
             \/ results' = Append(o.rows, UnknownStepRow(t)) /\ store' = store
    /\ m_idx' = m_idx + 1
    /\ UNCHANGED <<m_pc, m_exit, processed>>
    /\ UNCHANGED orchEnvVars

\* the batch is exhausted (main.py 265), or 'q' is typed (manual 260)
OrchFinish ==
    /\ m_pc = "loop"
    /\ m_idx > Len(input_rows)
    /\ m_pc' = "done"
    /\ m_exit' = 0
    /\ UNCHANGED <<results, store, calls, m_idx, processed>>
    /\ UNCHANGED orchEnvVars

OrchNext == MainStart \/ MainIterate \/ ManualIterate \/ OrchFinish

\* the state when python main.py --input FILE starts on a batch, to be
\* followed by python main.py --input FILE --resume
RerunInit ==
    /\ prog = "main"
    /\ df_cols \in {AllCols, AllCols \ {"new"}, AllCols \ {"ticket_id"}}
    /\ df_rows = MainTable
    /\ milvus \in MilvusStates
    /\ input_state = "ok"
    /\ input_rows \in Batches
    /\ files = CollectionQueryTemplate
    /\ resume = FALSE
    /\ store \in PriorStores
    /\ results = <<>>
    /\ processed = {}
    /\ calls = NoCalls
    /\ first_run = NoFirstRun
    /\ collections = <<>>
    /\ ingests = <<>>
    /\ kb_call = [op |-> "none"]
    /\ m_idx = 1
    /\ m_exit = -1
    /\ m_pc = "start"
    /\ ticket_id = "T1"
    /\ cls_pc = "idle"
    /\ cls_out = [kind |-> "none"]
    /\ search_data = [error |-> ""]
    /\ bk = BackoffIdle
    /\ gr_pc = "idle"
    /\ gr_out = [status |-> "none"]

\* python main.py --resume started on the same input once the first run
\* has ended: a new process, with the results file as the first run left it
MainRestart ==
    /\ prog = "main"
    /\ m_pc = "done"
    /\ ~first_run.done
    /\ first_run' = [done |-> TRUE, store |-> store]
    /\ resume' = TRUE
    /\ m_pc' = "start"
    /\ m_idx' = 1
    /\ m_exit' = -1
    /\ results' = <<>>
    /\ processed' = {}
    /\ calls' = NoCalls
    /\ UNCHANGED <<store, prog, input_state, input_rows, milvus>>
    /\ UNCHANGED <<clsVars, cmpVars, kbVars>>

RerunNext == MainStart \/ MainIterate \/ OrchFinish \/ MainRestart

-----------------------------------------------------------------------------------------------------------------------------------------------------
(* core/vector_ingestion_engine.py                                         *)

REQUIRED_COLS == <<"subject", "email_body">>

\* x in a Python list
InList(x, list) == \E i \in 1..Len(list) : list[i] = x

RECURSIVE ReplaceNonWordRuns(_, _)
\* re.sub(r"[^a-z0-9_]+", "_", name); in_run: the run was already replaced
ReplaceNonWordRuns(name, in_run) ==
    IF name = "" THEN ""
    ELSE IF CharAt(name, 1) \in LowerWordChars
    THEN CharAt(name, 1) \o ReplaceNonWordRuns(SubSeq(name, 2, Len(name)), FALSE)
    ELSE (IF in_run THEN "" ELSE "_")
         \o ReplaceNonWordRuns(SubSeq(name, 2, Len(name)), TRUE)

RECURSIVE CollapseUnderscores(_, _)
\* re.sub(r"_+", "_", name)
CollapseUnderscores(name, in_run) ==
    IF name = "" THEN ""
    ELSE IF CharAt(name, 1) # "_"
    THEN CharAt(name, 1) \o CollapseUnderscores(SubSeq(name, 2, Len(name)), FALSE)
    ELSE (IF in_run THEN "" ELSE "_")
         \o CollapseUnderscores(SubSeq(name, 2, Len(name)), TRUE)

RECURSIVE StripUnderscores(_)
\* name.strip("_")
StripUnderscores(name) ==
    IF name = "" THEN ""
    ELSE IF CharAt(name, 1) = "_" THEN StripUnderscores(SubSeq(name, 2, Len(name)))
    ELSE IF CharAt(name, Len(name)) = "_"
    THEN StripUnderscores(SubSeq(name, 1, Len(name) - 1))
    ELSE name

\* _sanitize(name) of both engines
_sanitize(name) ==
    StripUnderscores(
        CollapseUnderscores(
            ReplaceNonWordRuns(StrLower(StrStrip(name)), FALSE), FALSE))

\* utility.has_collection(name) on the index service cs
has_collection(cs, name) == name \in DOMAIN cs

\* utility.drop_collection without the removal: the collection stays
drop_collectionKeeps(cs, name) == cs

\* utility.drop_collection(name)
drop_collection(cs, name) == [n \in DOMAIN cs \ {name} |-> cs[n]]

\* the columns that become schema fields and inserted values
metadata_columns(columns) ==
    SelectSeq(columns, LAMBDA col : ~InList(col, REQUIRED_COLS))

\* _build_dynamic_schema(df): the field names of the schema
_build_dynamic_schema(columns) == <<"id", "embedding">> \o metadata_columns(columns)

\* MAX_VARCHAR_LEN, the max_length _build_dynamic_schema gives every metadata field
MAX_VARCHAR_LEN == 65535

\* _truncate(text, max_len=MAX_VARCHAR_LEN)
_truncate(text, max_len) ==
    IF Len(text) > max_len THEN SubSeq(text, 1, max_len) ELSE text

\* the required columns the sheet lacks
missing_cols(columns) ==
    SelectSeq(REQUIRED_COLS, LAMBDA required_col : ~InList(required_col, columns))

\* Collection(name=collection_name, schema=schema): a new empty collection;
\* over a collection that exists the service hands back that collection when
\* the schema is the same, and raises when it differs (cs stays as it is)
CreateCollection(cs, name, schema) ==
    IF has_collection(cs, name) THEN cs
    ELSE (name :> [fields |-> schema, records |-> <<>>]) @@ cs

\* the value of column col in a sheet row, as df[col].fillna("").astype(str)
CellOf(columns, row, col) ==
    row[CHOOSE i \in 1..Len(columns) : columns[i] = col]

\* the entities inserted for the rows of the sheet: metadata field -> value
InsertData(columns, rows) ==
    [k \in 1..Len(rows) |->
        [col \in { columns[i] : i \in 1..Len(columns) } \ {"subject", "email_body"}
            |-> CellOf(columns, rows[k], col)]]

\* collection.insert(insert_data) on a collection that exists with the schema
Insert(cs, name, data) ==
    [cs EXCEPT ![name].records = @ \o data]

\* a value of the entities is longer than the max_length of its field: the
\* service refuses the insert
ExceedsMaxLength(data) ==
    \E k \in 1..Len(data) : \E col \in DOMAIN data[k] :
        Len(data[k][col]) > MAX_VARCHAR_LEN

\* what can go wrong with the services while one sheet is ingested
IngestFaults == {"none", "embed", "insert"}

\* lines 94-117: embed, create the collection, insert, index and load
ingest_rows(cs, name, columns, rows, fault) ==
    IF fault = "embed" THEN cs
    ELSE IF has_collection(cs, name) /\ cs[name].fields # _build_dynamic_schema(columns)
    THEN cs
    ELSE IF fault = "insert" \/ ExceedsMaxLength(InsertData(columns, rows))
    THEN CreateCollection(cs, name, _build_dynamic_schema(columns))
    ELSE Insert(CreateCollection(cs, name, _build_dynamic_schema(columns)),
                name, InsertData(columns, rows))

\* lines 69-117 once the existing collection was dropped
ingest_checked(cs, name, columns, rows, fault) ==
    IF missing_cols(columns) # <<>> THEN cs
    ELSE IF rows = <<>> THEN cs
    ELSE ingest_rows(cs, name, columns, rows, fault)

\* lines 62-117 for the sanitized columns and collection name
ingest_named(cs, name, columns, rows, fault) ==
    ingest_checked(IF has_collection(cs, name) THEN drop_collection(cs, name) ELSE cs,
                   name, columns, rows, fault)

\* one iteration of the loop of ingest_excel_file: the try block for a sheet
ingest_sheet(cs, sheet, fault) ==
    ingest_named(cs, _sanitize(sheet.name),
                 [i \in 1..Len(sheet.header) |-> _sanitize(sheet.header[i])],
                 sheet.rows, fault)

RECURSIVE ingest_excel_file(_, _, _)
\* ingest_excel_file(file_path) on a workbook, a sequence of sheets
ingest_excel_file(cs, file, fault) ==
    IF file = <<>> THEN cs
    ELSE ingest_excel_file(ingest_sheet(cs, Head(file), fault), Tail(file), fault)

-----------------------------------------------------------------------------
(* core/semantic_response_engine.py                                        *)

NoRelevantResponse == "No relevant response found."

\* None
None == [none |-> TRUE]

\* _determine_status_keys(ticket_row)
_determine_status_keys(ticket_row) ==
    IF ticket_row = None THEN <<"lr_status", "disbursement_completion_date">>
    ELSE IF Usable(StrStrip(ticket_row.data_from_IM_pls))
    THEN <<"loan_status", "repayment_status", "last_stage_checklist">>
    ELSE <<"lr_status", "disbursement_completion_date">>

\* what can go wrong with the services during one retrieval
SearchFaults == {"none", "vectorize", "search"}

\* _search_milvus_collection: hit is the record the service ranks first
_search_milvus_collection(cs, collection_name, hit, fault) ==
    IF fault = "search" THEN None
    ELSE IF ~has_collection(cs, collection_name) THEN None
    ELSE IF cs[collection_name].records = <<>> THEN None
    ELSE cs[collection_name].records[hit]

RECURSIVE FirstUsableAnyText(_, _, _)
\* the for loop without the test of the stripped value
FirstUsableAnyText(milvus_row, status_keys, i) ==
    IF i > Len(status_keys) THEN NoRelevantResponse
    ELSE IF status_keys[i] \in DOMAIN milvus_row /\ milvus_row[status_keys[i]] # ""
    THEN StrStrip(milvus_row[status_keys[i]])
    ELSE FirstUsableAnyText(milvus_row, status_keys, i + 1)

RECURSIVE FirstUsable(_, _, _)
\* the for loop of _extract_response_value
FirstUsable(milvus_row, status_keys, i) ==
    IF i > Len(status_keys) THEN NoRelevantResponse
    ELSE IF /\ status_keys[i] \in DOMAIN milvus_row
            /\ milvus_row[status_keys[i]] # ""
            /\ Usable(StrStrip(milvus_row[status_keys[i]]))
    THEN StrStrip(milvus_row[status_keys[i]])
    ELSE FirstUsable(milvus_row, status_keys, i + 1)

\* _extract_response_value(milvus_row, status_keys)
_extract_response_value(milvus_row, status_keys) ==
    IF milvus_row = None THEN NoRelevantResponse
    ELSE FirstUsable(milvus_row, status_keys, 1)

\* get_response(ticket_id, category_name, query_text); ticket_row is what
\* _get_ticket_row finds in data_db.csv
get_response(cs, tid, ticket_row, category_name, hit, fault) ==
    IF fault = "vectorize"
    THEN [ticket_id |-> tid, response |-> NoRelevantResponse]
    ELSE [ticket_id |-> tid,
          response |-> _extract_response_value(
                          _search_milvus_collection(cs, _sanitize(category_name), hit, fault),
                          _determine_status_keys(ticket_row))]

-----------------------------------------------------------------------------
(* query_email_body.py                                                     *)

\* None where a field name is expected
NoField == "<None>"

\* the first field whose lower-cased name contains pattern, or None
FirstFieldWith(fields, pattern) ==
    LET hits == { i \in 1..Len(fields) : Contains(StrLower(fields[i]), pattern) } IN
    IF hits = {} THEN NoField ELSE fields[Min(hits)]

email_body_patterns ==
    << "email_body", "body", "emailbody", "message_body",
       "content", "email_content", "message", "text" >>

\* find_email_body_field(fields)
find_email_body_field(fields) ==
    LET found == { k \in 1..Len(email_body_patterns) :
                     FirstFieldWith(fields, email_body_patterns[k]) # NoField } IN
    IF found = {} THEN NoField
    ELSE FirstFieldWith(fields, email_body_patterns[Min(found)])

\* `return results, email_body_field`
Pair(results_, field) == [kind |-> "pair", results |-> results_, field |-> field]
\* `return None, None`
NonePair == [kind |-> "none_pair"]
\* `return None`
BareNone == [kind |-> "none"]

\* collection.query(expr, output_fields, limit=10)
QueryRecords(records, subject_field, subject_input, status_field, status_input) ==
    SelectSeq(records,
              LAMBDA r : /\ subject_field \in DOMAIN r /\ r[subject_field] = subject_input
                         /\ status_field \in DOMAIN r /\ r[status_field] = status_input)

\* lines 85-122 once the collection is loaded
query_fields(records, subject_field, status_field, email_body_field, subject_input, status_input, fault) ==
    IF subject_field = NoField THEN BareNone
    ELSE IF status_field = NoField THEN BareNone
    ELSE IF email_body_field = NoField THEN BareNone
    ELSE IF fault THEN NonePair
    ELSE Pair(QueryRecords(records, subject_field, subject_input,
                           status_field, status_input),
              email_body_field)

\* query_email_body(category, subject_input, status_input); fault: the
\* service raises during collection.query
query_email_body(cs, category, subject_input, status_input, fault) ==
    IF ~has_collection(cs, category) THEN NonePair
    ELSE query_fields(cs[category].records,
                      FirstFieldWith(cs[category].fields, "subject"),
                      FirstFieldWith(cs[category].fields, "status"),
                      find_email_body_field(cs[category].fields),
                      subject_input, status_input, fault)

-----------------------------------------------------------------------------
(* Inputs of the knowledge index: workbooks, tickets and queries.          *)

\* upper bound on the ingest_excel_file calls of one run
MaxIngests == 2

Sheet(name, header, rows) == [name |-> name, header |-> header, rows |-> rows]

CollectionQuerySheet ==
    Sheet("Collection Query",
          <<"Subject", "Email Body", "LR Status", "Disbursement Completion Date">>,
          << <<"emi due", "Dear Customer, pay by the due date.", "Regular", "2024-01-05">>,
             <<"emi paid", "Dear Customer, thank you.", "", " 2024-02-06 ">>,
             <<"emi late", "Dear Customer, a late fee applies.", " NaN ", " 2024-03-07 ">>,
             <<"emi waived", "Dear Customer, the fee is waived.", "nan", "">> >>)

\* a sheet without the email_body column
KycSheet ==
    Sheet("Other KYC-Issues", <<"Subject", "lr_status">>, << <<"kyc", "Pending">> >>)

\* the same category as CollectionQuerySheet, with other columns
CollectionQuerySheet2 ==
    Sheet("collection_query ",
          <<"subject", "email_body", "Loan Status", "Repayment Status", "Subject Line", "Message Text">>,
          << <<"emi due", "Dear Customer, noted.", "CLOSED", "REGULAR", "emi due", "noted">>,
             <<"emi due", "Dear Customer, received.", "nan", "DELAYED", "emi due", "received">> >>)

\* a sheet with the required columns and no row
EmptySheet == Sheet("Data Erasure Request  ", <<"subject", "email_body">>, <<>>)

RECURSIVE Doubled(_, _)
\* s repeated 2^n times
Doubled(s, n) == IF n = 0 THEN s ELSE Doubled(s \o s, n - 1)

\* a sheet with a cell of MAX_VARCHAR_LEN + 1 characters
LongCellSheet ==
    Sheet("Loan Closure", <<"subject", "email_body", "lr_status">>,
          << <<"noc", "Dear Customer, the NOC is attached.", Doubled("x", 16)>> >>)

Workbooks ==
    { <<CollectionQuerySheet>>, <<KycSheet>>, <<CollectionQuerySheet2>>,
      <<EmptySheet>>, <<CollectionQuerySheet, KycSheet>>, <<LongCellSheet>> }

TicketRowSamples ==
    { None, [data_from_IM_pls |-> "IM+"], [data_from_IM_pls |-> "nan"] }

CategoryNames == {"Collection Query", "other_kyc_issues", "Escalations"}

\* the state when an ingestion or retrieval program starts on a fresh service
KbInit ==
    /\ collections = <<>>
    /\ ingests = <<>>
    /\ kb_call = [op |-> "none"]
    \* the other programs are not running
    /\ df_cols = AllCols
    /\ df_rows = <<>>
    /\ ticket_id = "T1"
    /\ cls_pc = "idle"
    /\ cls_out = [kind |-> "none"]
    /\ search_data = [error |-> ""]
    /\ files = <<>>
    /\ bk = BackoffIdle
    /\ gr_pc = "idle"
    /\ gr_out = [status |-> "none"]
    /\ prog = "none"
    /\ input_state = "ok"
    /\ input_rows = <<>>
    /\ resume = FALSE
    /\ store = NoStore
    /\ results = <<>>
    /\ processed = {}
    /\ m_pc = "idle"
    /\ m_idx = 1
    /\ m_exit = -1
    /\ milvus = <<>>
    /\ calls = NoCalls
    /\ first_run = NoFirstRun

\* A run is a series of ingestions followed by one retrieval: a retrieval
\* only reads the index service, so what follows it adds no new case.
NoRetrievalYet == kb_call.op \in {"none", "ingest_excel_file"}

\* VectorIngestionEngine.ingest_excel_file(file_path)
IngestExcelFile ==
    /\ NoRetrievalYet
    /\ Len(ingests) < MaxIngests
    /\ \E file \in Workbooks, fault \in IngestFaults :
         /\ collections' = ingest_excel_file(collections, file, fault)
         /\ ingests' = Append(ingests, [file |-> file, fault |-> fault,
                                        after |-> collections'])
         /\ kb_call' = [op |-> "ingest_excel_file", file |-> file, fault |-> fault]
    /\ UNCHANGED <<clsVars, cmpVars, orchVars>>

\* the records the service can rank first for a category
Hits(cs, category_name) ==
    IF has_collection(cs, _sanitize(category_name))
       /\ cs[_sanitize(category_name)].records # <<>>
    THEN 1..Len(cs[_sanitize(category_name)].records)
    ELSE {1}

\* SemanticResponseEngine.get_response(ticket_id, category_name, query_text)
GetResponse ==
    /\ NoRetrievalYet
    /\ \E ticket_row \in TicketRowSamples, category_name \in CategoryNames,
          fault \in SearchFaults :
       \E hit \in Hits(collections, category_name) :
         kb_call' = [op |-> "get_response", category_name |-> category_name,
                     ticket_row |-> ticket_row, fault |-> fault, hit |-> hit,
                     out |-> get_response(collections, "T1", ticket_row,
                                          category_name, hit, fault)]
    /\ UNCHANGED <<collections, ingests>>
    /\ UNCHANGED <<clsVars, cmpVars, orchVars>>

\* query_email_body(category, subject, status) as main() calls it
QueryEmailBody ==
    /\ NoRetrievalYet
    /\ \E category \in {"collection_query", "other_kyc_issues"},
          subject_input \in {"emi due"}, status_input \in {"CLOSED", "Regular"},
          fault \in BOOLEAN :
         kb_call' = [op |-> "query_email_body", category |-> category,
                     subject |-> subject_input, status |-> status_input,
                     fault |-> fault,
                     out |-> query_email_body(collections, category, subject_input,
                                              status_input, fault)]
    /\ UNCHANGED <<collections, ingests>>
    /\ UNCHANGED <<clsVars, cmpVars, orchVars>>

KbNext == IngestExcelFile \/ GetResponse \/ QueryEmailBody

-----
(* Specifications, one per program.                                        *)

\* python core/data_db_processor.py --ticket-id T
SpecClassify == ClsInit /\ [][Classify]_vars

\* python email_responder.py FILE --format json
SpecCompose == CmpInit /\ [][CmpNext]_vars

\* python main.py [--resume], and python manual_email_processor.py
SpecOrchestrate == OrchInit /\ [][OrchNext]_vars

\* the ingestion of workbooks, and retrievals on the knowledge index
SpecKnowledge == KbInit /\ [][KbNext]_vars

\* python main.py --input FILE, then python main.py --input FILE --resume
SpecRerun == RerunInit /\ [][RerunNext]_vars

-----------------------------------------------------------------------------
(* Properties of the composer and of the backoff loop (SpecCompose).       *)

FairCompose == SpecCompose /\ WF_vars(CmpNext)

\* generate_response was given the FieldNotFound error for category c
GivenFieldNotFound(c) == search_data = [error |-> FieldNotFoundMsg(SampleField, c)]

\* C2 as stated: for a FieldNotFound outcome for category C with a template
\* file for C, generate_response returns status 'success' with the template
\* content verbatim and the backend is never invoked.
C2_TemplateExistsNoBackend ==
    \A c \in SampleCollections :
        (gr_pc # "idle" /\ GivenFieldNotFound(c) /\ TemplatePath(c) \in DOMAIN files)
        => /\ bk.hist = <<>>
           /\ gr_pc = "done" => /\ gr_out.status = "success"
                                /\ gr_out.email_response = files[TemplatePath(c)]

\* C2 amended: the same for a template file for C whose content is not empty.
C2_NonEmptyTemplateNoBackend ==
    \A c \in SampleCollections :
        (gr_pc # "idle" /\ GivenFieldNotFound(c) /\ TemplatePath(c) \in DOMAIN files
            /\ files[TemplatePath(c)] # "")
        => /\ bk.hist = <<>>
           /\ bk.pc = "idle"
           /\ gr_pc = "done" => /\ gr_out.status = "success"
                                /\ gr_out.email_response = files[TemplatePath(c)]

C2_Witness ==
    /\ gr_pc = "done"
    /\ GivenFieldNotFound("collection_query")
    /\ TemplatePath("collection_query") \in DOMAIN files
    /\ files[TemplatePath("collection_query")] # ""
    /\ gr_out.status = "success"
    /\ gr_out.email_response = files[TemplatePath("collection_query")]
    /\ bk.hist = <<>>

ThreeRateLimits == <<"http_429", "http_429", "http_429">>

\* C3: after three rate-limit signals in a row the waits made are 5, 10 and
\* 20 (35 in total), all of them before the fourth call; when the fourth call
\* succeeds no further wait is made and the generated text is returned.
C3_BackoffWaits ==
    /\ (Len(bk.hist) >= 3 /\ SubSeq(bk.hist, 1, 3) = ThreeRateLimits)
       => /\ SubSeq(bk.waits, 1, 3) = <<5, 10, 20>>
          /\ SumSeq(SubSeq(bk.waits, 1, 3)) = 35
    /\ bk.hist = ThreeRateLimits \o <<"ok">>
       => /\ bk.waits = <<5, 10, 20>>
          /\ bk.pc = "returned"
          /\ bk.result = GeneratedText
          /\ gr_pc = "done" => gr_out.email_response = GeneratedText

C3_Witness ==
    /\ bk.hist = ThreeRateLimits \o <<"ok">>
    /\ bk.pc = "returned"
    /\ SumSeq(bk.waits) = 35
    /\ gr_pc = "done"

AllRateLimited == \A i \in 1..Len(bk.hist) : bk.hist[i] = "http_429"

\* C4: the call ends whatever the backend does, the backend is invoked at
\* most 5 times, and after 5 rate-limit signals the call raises the
\* retry-exhausted error: it neither returns text nor calls again.
C4_BoundedRetries ==
    /\ [](Len(bk.hist) <= 5)
    /\ []((Len(bk.hist) = 5 /\ AllRateLimited /\ bk.pc # "running")
            => (bk.pc = "raised"
                /\ bk.result = "Failed after multiple retries due to rate limiting."))
    /\ [](gr_pc = "llm" => <>(bk.pc \in {"returned", "raised"}))
    /\ <>(gr_pc = "done")

C4_Witness ==
    /\ Len(bk.hist) = 5
    /\ AllRateLimited
    /\ bk.pc = "raised"
    /\ gr_pc = "done"
    /\ gr_out.status = "error"

HardErrors == {"http_other", "exception"}

\* C5: a backend error that is not a rate-limit signal is the last thing the
\* call does: no wait follows it, no call follows it, the call raises, and
\* generate_response returns status 'error' with the error's text.
C5_AbortOnHardError ==
    \A i \in 1..Len(bk.hist) :
        bk.hist[i] \in HardErrors
        => /\ i = Len(bk.hist)
           /\ Len(bk.waits) = i - 1
           /\ bk.pc = "raised"
           /\ gr_pc = "done" => (gr_out.status = "error" /\ gr_out.error = bk.result)

C5_Witness ==
    /\ Len(bk.hist) = 2
    /\ bk.hist[1] = "http_429"
    /\ bk.hist[2] = "http_other"
    /\ bk.waits = <<5>>
    /\ gr_pc = "done"
    /\ gr_out.status = "error"

-----------------------------------------------------------------------------
(* Properties of the classifier (SpecClassify).                            *)

IdCols == {"Ticket ID", "ticket_id"}

\* no row carries the ticket identifier under an identifier column of the source
NoRowMatches ==
    \A c \in IdCols \cap df_cols : Matching(df_rows, c, ticket_id) = {}

\* the rows carrying the ticket identifier under an identifier column
TicketRows ==
    { df_rows[i] : i \in UNION { Matching(df_rows, c, ticket_id) : c \in IdCols \cap df_cols } }

\* C7: when no row matches under the identifier columns the source has, the
\* classifier returns the pair 'not_found' / 'not_found' and does not raise.
C7_NotFoundSentinel ==
    (cls_pc \in {"returned", "raised"} /\ NoRowMatches)
    => cls_out = Returned("not_found", "not_found")

ImInstancesLabel == "predisbursal_loan_query_im+_instances"

HasLabel(label) ==
    /\ cls_pc = "returned"
    /\ TicketRows # {}
    /\ "new" \in df_cols
    /\ \A r \in TicketRows : r["new"] = label

\* C9 as stated: the raw label 'predisbursal_loan_query_im+_instances' is
\* mapped to the category 'predisbursal_loan_query_im_inst'.
C9_MapsToImInst ==
    HasLabel(ImInstancesLabel) => cls_out.category = "predisbursal_loan_query_im_inst"

\* C9 amended: the raw label 'predisbursal_loan_query_im+_instances' is
\* mapped to the category 'predisbursal_loan_query_im_in_1'.
C9_MapsToImIn1 ==
    HasLabel(ImInstancesLabel) => cls_out.category = "predisbursal_loan_query_im_in_1"

C9_Witness ==
    /\ HasLabel(ImInstancesLabel)
    /\ cls_out.category = "predisbursal_loan_query_im_in_1"

\* the longest value of the sanitization table
CategoryMaxLen ==
    CHOOSE n \in { Len(p[2]) : p \in CATEGORY_SANITIZATION_MAP } :
        \A p \in CATEGORY_SANITIZATION_MAP : Len(p[2]) <= n

\* ^[a-z0-9_]+$ with no '_' at either end, of bounded length
WellFormedCategory(c) ==
    /\ c # ""
    /\ \A i \in 1..Len(c) : CharAt(c, i) \in LowerWordChars
    /\ CharAt(c, 1) # "_"
    /\ CharAt(c, Len(c)) # "_"
    /\ Len(c) <= CategoryMaxLen

\* C10: the category returned for a found ticket is lower-case, made of
\* [a-z0-9_] only, has no '_' at either end and is length-bounded, whether or
\* not the raw label has an entry in the sanitization table.
C10_CategoryWellFormed ==
    (cls_pc = "returned" /\ TicketRows # {}) => WellFormedCategory(cls_out.category)

-----------------------------------------------------------------------------
(* Properties of the orchestrators (SpecOrchestrate).                      *)

\* the rows of `results` for ticket t
RowsOf(t) == { k \in 1..Len(results) : results[k].ticket = t }

InSeq(x, s) == \E k \in 1..Len(s) : s[k] = x

\* C1: once main.main has gone through the batch, every input ticket that
\* resume did not skip has exactly one row in `results`, tickets of skipped
\* or empty category and tickets that failed at any stage included.
C1_OneRowPerTicket ==
    (prog = "main" /\ m_pc = "done" /\ input_state = "ok")
    => \A i \in 1..Len(input_rows) :
          input_rows[i] \notin processed => Cardinality(RowsOf(input_rows[i])) = 1

\* the category of ticket t at the skip check of the running orchestrator
CategoryAtSkipCheck(t) ==
    LET cls == process_ticket_metadata(df_cols, df_rows, t) IN
    IF cls.kind # "return" THEN "<none>"
    ELSE IF prog = "main" THEN MainNormalize(cls).category
    ELSE ManualNormalize(cls).category

\* ticket t was classified and went on to the skip check
ReachedSkipCheck(t) ==
    /\ InSeq(t, calls.classify)
    /\ \A k \in RowsOf(t) :
          results[k].response # "Failed at data_db_processor: " \o SubprocessFailed

\* C6: the ticket just handled, when its category at the skip check is in
\* the skip-list, has a row with the canned 'skipped' text, and neither
\* retrieval nor composition was invoked for it.
C6_SkipListedRowNoStages ==
    (m_pc = "loop" /\ m_idx > 1)
    => LET t == input_rows[m_idx - 1] IN
       (ReachedSkipCheck(t) /\ CategoryAtSkipCheck(t) \in skip_search_categories)
       => /\ \E k \in RowsOf(t) : results[k].response = SkippedText(CategoryAtSkipCheck(t))
          /\ ~InSeq(t, calls.search)
          /\ ~InSeq(t, calls.respond)

-----------------------------------------------------------------------------
(* Further properties of the classifier (SpecClassify).                    *)

\* C11: for every found ticket, with or without a usable marker, the status
\* returned is lower-case and has no trailing '_<digits>' suffix.
C11_StatusLowerNoSuffix ==
    (cls_pc = "returned" /\ TicketRows # {})
    => /\ cls_out.status = StrLower(cls_out.status)
       /\ StripNumSuffix(cls_out.status) = cls_out.status

-----------------------------------------------------------------------------
(* Properties of the knowledge index (SpecKnowledge).                      *)

\* the collection name and the columns ingest_excel_file derives for a sheet
SheetCategory(sheet) == _sanitize(sheet.name)
SheetColumns(sheet) == [i \in 1..Len(sheet.header) |-> _sanitize(sheet.header[i])]

\* C12: after an ingestion without service fault, a sheet that lacks a
\* required column ('subject' or 'email_body') has a collection for its
\* category, and that collection holds no record.
C12_MissingColumnEmptyCollection ==
    (kb_call.op = "ingest_excel_file" /\ kb_call.fault = "none")
    => \A i \in 1..Len(kb_call.file) :
          ( /\ missing_cols(SheetColumns(kb_call.file[i])) # <<>>
            /\ \A j \in 1..Len(kb_call.file) :
                  j # i => SheetCategory(kb_call.file[j]) # SheetCategory(kb_call.file[i]) )
          => /\ has_collection(collections, SheetCategory(kb_call.file[i]))
             /\ collections[SheetCategory(kb_call.file[i])].records = <<>>

\* the collection of category c has the same record count and field set in
\* the index states a and b (or is absent from both)
SameCollection(a, b, c) ==
    /\ has_collection(a, c) <=> has_collection(b, c)
    /\ has_collection(a, c)
       => /\ Len(a[c].records) = Len(b[c].records)
          /\ { a[c].fields[i] : i \in 1..Len(a[c].fields) }
             = { b[c].fields[i] : i \in 1..Len(b[c].fields) }

\* ingestions k and k+1 are of the same workbook under the same service behaviour
SameIngestTwice(k) ==
    /\ ingests[k].file = ingests[k + 1].file
    /\ ingests[k].fault = ingests[k + 1].fault

\* C13: ingesting the same workbook twice in a row leaves each of its
\* categories with the record count and the field set the first ingestion
\* left: the records of the two ingestions do not accumulate.
C13_IngestIdempotent ==
    \A k \in 1..(Len(ingests) - 1) :
        SameIngestTwice(k)
        => \A i \in 1..Len(ingests[k].file) :
              SameCollection(ingests[k].after, ingests[k + 1].after,
                             SheetCategory(ingests[k].file[i]))

\* a workbook with rows was ingested twice in a row and its collection is populated
C13_Witness ==
    \E k \in 1..(Len(ingests) - 1) :
        /\ SameIngestTwice(k)
        /\ ingests[k].fault = "none"
        /\ ingests[k].file = <<CollectionQuerySheet>>
        /\ has_collection(ingests[k + 1].after, "collection_query")
        /\ Len(ingests[k + 1].after["collection_query"].records)
               = Len(CollectionQuerySheet.rows)

\* none of the status keys has a usable value in the candidate
NoUsableField(milvus_row, status_keys) ==
    \A i \in 1..Len(status_keys) :
        ~ ( /\ status_keys[i] \in DOMAIN milvus_row
            /\ Usable(StrStrip(milvus_row[status_keys[i]])) )

\* what a retrieval on the index state cs meets
Situation(cs, ticket_row, category_name, hit, fault) ==
    IF fault # "none" THEN "BackendUnavailable"
    ELSE IF ~has_collection(cs, _sanitize(category_name)) THEN "CollectionNotFound"
    ELSE IF cs[_sanitize(category_name)].records = <<>> THEN "Empty"
    ELSE IF NoUsableField(cs[_sanitize(category_name)].records[hit],
                          _determine_status_keys(ticket_row))
    THEN "FieldNotFound"
    ELSE "Found"

\* C19: a missing collection, an empty result, a candidate without usable
\* priority field and an index-service error are returned by get_response
\* as values the caller can tell apart: no two retrievals that meet
\* different ones of these return the same value.
C19_OutcomesDistinct ==
    (kb_call.op = "get_response"
     /\ Situation(collections, kb_call.ticket_row, kb_call.category_name,
                  kb_call.hit, kb_call.fault) # "Found")
    => \A ticket_row \in TicketRowSamples, category_name \in CategoryNames,
          fault \in SearchFaults :
       \A hit \in Hits(collections, category_name) :
          Situation(collections, ticket_row, category_name, hit, fault)
             \notin {"Found", Situation(collections, kb_call.ticket_row,
                                        kb_call.category_name, kb_call.hit, kb_call.fault)}
          => get_response(collections, "T1", ticket_row, category_name, hit, fault)
             # kb_call.out

\* C20: query_email_body on a category without collection returns an empty
\* result list, and every return of query_email_body is a pair the caller
\* can unpack as (results, field).
C20_MissingCollectionEmptyList ==
    kb_call.op = "query_email_body"
    => /\ kb_call.out.kind \in {"pair", "none_pair"}
       /\ ~has_collection(collections, kb_call.category)
          => (kb_call.out.kind = "pair" /\ kb_call.out.results = <<>>)

-----------------------------------------------------------------------------
(* Further properties of the batch orchestrator (SpecOrchestrate).         *)

\* no write of the results file has failed so far
NoWriteFailure ==
    \A k \in 1..Len(results) : results[k] # UnknownStepRow(results[k].ticket)

\* C14: after main has handled a ticket, whatever the outcome, the results
\* file holds the row of every ticket handled so far, the last one included
\* (as long as no write of the file itself failed).
C14_StoreHoldsHandled ==
    (prog = "main" /\ input_state = "ok" /\ m_pc \in {"loop", "done"} /\ NoWriteFailure)
    => \A i \in 1..(m_idx - 1) :
          input_rows[i] \notin processed
          => \A k \in RowsOf(input_rows[i]) :
                store.exists /\ InSeq(results[k], store.rows)

\* the tickets of the rows of a results file
TicketsOf(rows) == { rows[k].ticket : k \in 1..Len(rows) }

\* C15: in a run with --resume over an existing results file, no stage is
\* invoked for a ticket that has a row in that file, and the rows of the
\* file are kept as they were at the head of the new result set.
C15_ResumeSkipsProcessed ==
    (prog = "main" /\ resume /\ input_state = "ok" /\ m_pc \in {"loop", "done"})
    => \E prior \in PriorStores \ {NoStore} :
          /\ Len(results) >= Len(prior.rows)
          /\ SubSeq(results, 1, Len(prior.rows)) = prior.rows
          /\ \A t \in TicketsOf(prior.rows) :
                /\ ~InSeq(t, calls.classify)
                /\ ~InSeq(t, calls.search)
                /\ ~InSeq(t, calls.respond)
                /\ Cardinality(RowsOf(t)) = 1

\* a resumed batch that holds an already processed ticket has ended
C15_Witness ==
    /\ prog = "main"
    /\ resume
    /\ m_pc = "done"
    /\ input_rows = <<"T1", "T3">>
    /\ "T1" \in processed
    /\ calls.classify = <<"T3">>
    /\ results[1].ticket = "T1"
    /\ Len(results) = 2

\* the rows main appends for a ticket whose stage failed
ErrorRows(t) ==
    { Row(t, "Failed at data_db_processor: " \o SubprocessFailed, ""),
      Row(t, "Failed at search_db_by_field: " \o SubprocessFailed, ""),
      Row(t, "Failed to run email_responder: " \o SubprocessFailed, "email_responder error") }

\* C16: a ticket whose classification, retrieval or composition failed has
\* an error row, and every later ticket of the batch that resume does not
\* skip is processed all the same: the failure does not end the batch.
C16_FailureDoesNotAbort ==
    (prog = "main" /\ input_state = "ok" /\ m_pc = "done")
    => \A i \in 1..Len(input_rows) :
          InSeq(input_rows[i], calls.failed)
          => /\ \E k \in RowsOf(input_rows[i]) : results[k] \in ErrorRows(input_rows[i])
             /\ \A j \in (i + 1)..Len(input_rows) :
                   input_rows[j] \notin processed => InSeq(input_rows[j], calls.classify)

\* the first ticket of a batch of two failed and the second was processed
C16_Witness ==
    /\ prog = "main"
    /\ m_pc = "done"
    /\ Len(input_rows) = 2
    /\ Len(calls.failed) >= 1
    /\ calls.failed[1] = input_rows[1]
    /\ calls.classify = input_rows
    /\ Len(results) = 2
    /\ results[1] \in ErrorRows(input_rows[1])
    /\ results[2].ticket = input_rows[2]

\* C17: the batch command ends with a non-zero exit status when the input
\* file is unreadable or lacks a required column, and with zero otherwise.
C17_ExitStatus ==
    (prog = "main" /\ m_pc = "done")
    => (m_exit # 0 <=> input_state \in {"unreadable", "missing_columns"})

-----------------------------------------------------------------------------
(* Further properties of the composer (SpecCompose).                       *)

\* retrieval reported FieldNotFound for a category that has no template file
FieldNotFoundNoTemplate ==
    \E c \in SampleCollections :
        GivenFieldNotFound(c) /\ TemplatePath(c) \notin DOMAIN files

\* generate_response returned a dict tagged 'success' or 'error', and a
\* backend call that raised (backend failure, retries exhausted) gave
\* 'error' with the reason
TaggedResult ==
    /\ gr_out.status \in {"success", "error"}
    /\ bk.pc = "raised"
       => (gr_out.status = "error" /\ gr_out.error = bk.result /\ gr_out.error # "")

-----------------------------------------------------------------------------
(* Properties of the status token on the marker-present path (SpecClassify). *)

\* the marker cell as process_ticket_metadata reads it
MarkerOf(r) == StrStrip(RowGet(df_cols, r, "data_from"))

\* the status cell under col as process_ticket_metadata reads it
StatusCell(r, col) == StrStrip(RowGet(df_cols, r, col))

\* the prefix of the token rule: the lower-cased marker with '+' as '_'
Prefix(im) == StrLower(StrReplacePlus(im))

\* none of the status cells of the row names a loan or a repayment bucket
NoBucketCells(r) ==
    \A c \in {"Loan Status", "repayment_status", "lr_status"} :
        StatusCell(r, c) \notin LoanBuckets \cup RepaymentBuckets

\* the ticket was found and every row found for it carries a usable marker
MarkerPresent ==
    /\ cls_pc = "returned"
    /\ TicketRows # {}
    /\ \A r \in TicketRows : Usable(MarkerOf(r))

\* C21: on the marker-present path, for every marker value, a ticket for
\* which no loan bucket and no repayment bucket is identified gets exactly
\* the token prefix + 'nostatus'.
C21_NoBucketIsNoStatus ==
    (MarkerPresent /\ \A r \in TicketRows : NoBucketCells(r))
    => \A r \in TicketRows : cls_out.status = Prefix(MarkerOf(r)) \o "nostatus"

\* the base of the token rule for a loan bucket and a repayment cell
ExpectedBase(loan, rep) ==
    StrLower(loan)
    \o (IF loan = "DISBURSED" /\ rep \in RepaymentBuckets THEN StrLower(rep) ELSE "")

\* the row names a loan bucket, and a repayment bucket or no repayment at all
BucketCells(r) ==
    /\ StatusCell(r, "Loan Status") \in LoanBuckets
    /\ \/ StatusCell(r, "repayment_status") \in RepaymentBuckets
       \/ ~Usable(StatusCell(r, "repayment_status"))

\* C22: on the marker-present path, for every marker value and every pair of
\* loan and repayment status, the token is the prefix followed by the loan
\* bucket name, with the repayment bucket appended exactly when the loan
\* bucket is 'disbursed' and a repayment bucket was found (the token is
\* compared after the trailing-suffix stripping the classifier applies).
C22_BaseIsLoanBucket ==
    (MarkerPresent /\ \A r \in TicketRows : BucketCells(r))
    => \A r \in TicketRows :
          cls_out.status =
              StripNumSuffix(Prefix(MarkerOf(r))
                  \o ExpectedBase(StatusCell(r, "Loan Status"),
                                  StatusCell(r, "repayment_status")))

\* the table with every repayment cell 'DELAYED_1' changed to 'DELAYED_3'
Delayed3For1(rows) ==
    [ i \in 1..Len(rows) |->
        IF rows[i]["repayment_status"] = "DELAYED_1"
        THEN [rows[i] EXCEPT !["repayment_status"] = "DELAYED_3"]
        ELSE rows[i] ]

\* C28: a ticket with loan status DISBURSED and repayment status DELAYED_1
\* gets a token different from the one the same ticket gets, under the same
\* marker, with repayment status DELAYED_3.
C28_DelayedBucketsDiffer ==
    (/\ MarkerPresent
     /\ \A r \in TicketRows : /\ StatusCell(r, "Loan Status") = "DISBURSED"
                              /\ StatusCell(r, "repayment_status") = "DELAYED_1")
    => cls_out.status #
       process_ticket_metadata(df_cols, Delayed3For1(df_rows), ticket_id).status

-----------------------------------------------------------------------------
(* Further properties of the knowledge index (SpecKnowledge).              *)

\* the entities with every value cut to MAX_VARCHAR_LEN
Truncated(data) ==
    [k \in 1..Len(data) |->
        [col \in DOMAIN data[k] |-> _truncate(data[k][col], MAX_VARCHAR_LEN)]]

\* ingestion k read one sheet that has the required columns and rows, and
\* the services did not fail
IngestedOneSheet(k) ==
    /\ ingests[k].fault = "none"
    /\ Len(ingests[k].file) = 1
    /\ missing_cols(SheetColumns(ingests[k].file[1])) = <<>>
    /\ ingests[k].file[1].rows # <<>>

\* C24: every metadata value ingestion inserts is at most MAX_VARCHAR_LEN
\* long, a longer sheet value being truncated to that length: after a sheet
\* was ingested its collection holds the sheet's values, each truncated.
C24_ValuesTruncated ==
    \A k \in 1..Len(ingests) :
        IngestedOneSheet(k) =>
            LET sheet == ingests[k].file[1] IN
            /\ has_collection(ingests[k].after, SheetCategory(sheet))
            /\ ingests[k].after[SheetCategory(sheet)].records
                   = Truncated(InsertData(SheetColumns(sheet), sheet.rows))

\* ingestion k read one sheet and inserted nothing for it: a required column
\* is missing, the sheet has no row, or the embedding step failed
InsertedNothing(k) ==
    /\ Len(ingests[k].file) = 1
    /\ \/ missing_cols(SheetColumns(ingests[k].file[1])) # <<>>
       \/ ingests[k].file[1].rows = <<>>
       \/ ingests[k].fault = "embed"

\* C26: when the ingestion of a sheet inserts nothing, the collection that
\* existed for the sheet's category before the call still exists afterwards,
\* with the same records.
C26_NothingInsertedKeepsCollection ==
    \A k \in 2..Len(ingests) :
        LET name == SheetCategory(ingests[k].file[1])
            before == ingests[k - 1].after
        IN (InsertedNothing(k) /\ has_collection(before, name))
           => /\ has_collection(ingests[k].after, name)
              /\ ingests[k].after[name] = before[name]

\* the candidate record has field key with a value that is non-empty after
\* trimming and is not 'nan' in any letter case
UsableField(milvus_row, key) ==
    /\ key \in DOMAIN milvus_row
    /\ StrStrip(milvus_row[key]) # ""
    /\ StrLower(StrStrip(milvus_row[key])) # "nan"

\* the retrieval of kb_call found a candidate record in the category's collection
FoundCandidate ==
    /\ kb_call.op = "get_response"
    /\ kb_call.fault = "none"
    /\ has_collection(collections, _sanitize(kb_call.category_name))
    /\ collections[_sanitize(kb_call.category_name)].records # <<>>

\* the candidate record of the retrieval of kb_call
Candidate == collections[_sanitize(kb_call.category_name)].records[kb_call.hit]

\* C23: response extraction returns the trimmed value of the first field of
\* the priority list that the candidate record has with a usable value; a
\* later field is never returned when an earlier one is usable.
C23_FirstUsableFieldWins ==
    FoundCandidate =>
        LET status_keys == _determine_status_keys(kb_call.ticket_row) IN
        \A i \in 1..Len(status_keys) :
            (/\ UsableField(Candidate, status_keys[i])
             /\ \A j \in 1..(i - 1) : ~UsableField(Candidate, status_keys[j]))
            => kb_call.out.response = StrStrip(Candidate[status_keys[i]])

\* a retrieval whose candidate has an unusable first field ('nan' in mixed
\* case) and a usable second one, which is returned trimmed
C23_Witness ==
    /\ FoundCandidate
    /\ LET status_keys == _determine_status_keys(kb_call.ticket_row) IN
       /\ status_keys[1] \in DOMAIN Candidate
       /\ Candidate[status_keys[1]] # ""
       /\ ~UsableField(Candidate, status_keys[1])
       /\ UsableField(Candidate, status_keys[2])
       /\ Candidate[status_keys[2]] # StrStrip(Candidate[status_keys[2]])
       /\ kb_call.out.response = StrStrip(Candidate[status_keys[2]])

-----------------------------------------------------------------------------
(* Further properties of the backend call (SpecCompose).                   *)

\* C27: no wait is made after an attempt that no other attempt follows: when
\* all 5 attempts are rate-limited, the waits made before the terminal error
\* are 5, 10, 20 and 40 (75 in total), none after the fifth attempt.
C27_NoWaitAfterLastAttempt ==
    (Len(bk.hist) = retries /\ AllRateLimited /\ bk.pc = "raised")
    => /\ bk.waits = <<5, 10, 20, 40>>
       /\ SumSeq(bk.waits) = 75

-----------------------------------------------------------------------------
(* Further properties of the orchestrators (SpecOrchestrate).              *)

\* the status of ticket t as main hands it to retrieval
StatusAtSearch(t) ==
    LET cls == process_ticket_metadata(df_cols, df_rows, t) IN
    IF cls.kind # "return" THEN "<none>" ELSE MainNormalize(cls).status

\* retrieval ran to its end for ticket t and found the collection of the
\* ticket's category without the field named by the ticket's status
RetrievalFieldNotFound(t) ==
    /\ InSeq(t, calls.search)
    /\ \A k \in RowsOf(t) :
          results[k].response # "Failed at search_db_by_field: " \o SubprocessFailed
    /\ CategoryAtSkipCheck(t) \in DOMAIN milvus
    /\ StatusAtSearch(t) \notin milvus[CategoryAtSkipCheck(t)].fields

\* C25: in main.main, when retrieval for a ticket ends in FieldNotFound for
\* a category that has a template, the composer receives that outcome and
\* the ticket's result row carries the template text.
C25_FieldNotFoundReachesComposer ==
    (prog = "main" /\ m_pc = "loop" /\ m_idx > 1)
    => LET t == input_rows[m_idx - 1]
           template_path == TemplatePath(CategoryAtSkipCheck(t))
       IN (/\ t \notin processed
           /\ RetrievalFieldNotFound(t)
           /\ template_path \in DOMAIN files)
          => \E k \in RowsOf(t) :
                results[k].response = StripEmailBodyLabel(StrStrip(files[template_path]))

\* The categories to try for identifier e: if any category is turned into e
\* by MainSanitize, one of these is. (milvus_sanitize leaves only letters,
\* digits and '_', which it and sanitize_input do not change; the lookup
\* then gives either that text or the value of a key of the table.)
Preimages(e) == {e} \cup MapKeys

\* C29: in main.main every identifier of the skip-list can be the category
\* at the skip-list test, and every key of the alias remap can be the
\* category at the alias test: the steps applied before do not rule it out.
C29_SkipAndAliasReachable ==
    prog = "main"
    => /\ \A e \in skip_search_categories :
             \E c \in Preimages(e) : AliasRemap(MainSanitize(c)) = e
       /\ \A e \in AliasKeys :
             \E c \in Preimages(e) : MainSanitize(c) = e

-----------------------------------------------------------------------------
(* Running the batch twice (SpecRerun).                                    *)

\* C30: once main has run a batch to its end, a second run on the same
\* input with --resume invokes classification, retrieval and composition
\* for no ticket, and leaves the results file with the same rows.
C30_RerunDoesNothing ==
    first_run.done
    => /\ calls.classify = <<>>
       /\ calls.search = <<>>
       /\ calls.respond = <<>>
       /\ store.rows = first_run.store.rows

====
